---- MODULE Spec2Model ----
(***************************************************************************)
(* Referral-tracking backend (src/server/index.js): an Express app with    *)
(* five routes in front of one MySQL connection.                           *)
(*                                                                         *)
(* Every route handler runs in two steps: the handler body (validation,    *)
(* then db.query, which only enqueues a command on the single connection)  *)
(* and, later, the query callback (which sends the response).  The         *)
(* connection executes its commands one at a time in FIFO order, so the    *)
(* model keeps the connection's command queue and one action per handler   *)
(* body and per callback.                                                  *)
(*                                                                         *)
(* Text values are sequences of one-character strings, so the regular      *)
(* expressions and the collation are computed, not assumed.                *)
(***************************************************************************)
EXTENDS Integers, Sequences, FiniteSets, TLC

VARIABLES
    running,        \* the Node process is alive and accepting requests
    conn,           \* state of the connection `db`: connecting, connected, closed
    backendUp,      \* the MySQL server can be reached
    canCreate,      \* the server accepts the CREATE TABLE statement
    tableExists,    \* table `referrals` exists in the database
    collation,      \* collation of the VARCHAR columns: "ci" or "bin"
    queue,          \* commands enqueued on `db`, oldest first
    rows,           \* rows of table `referrals`, in insertion order (rows[i].id = i)
    now,            \* CURRENT_TIMESTAMP of the server, in seconds
    errLog,         \* the console.error calls made so far
    last            \* the response sent by the latest step (NoResponse if it sent none)

vars == <<running, conn, backendUp, canCreate, tableExists, collation, queue,
          rows, now, errLog, last>>

----------------------------------------------------------------------------
(* Bounds of the model *)

MaxRows == 2        \* referrals created in one run
MaxQueue == 2       \* requests in flight on the connection at one time
MaxTime == 1        \* seconds the clock advances

----------------------------------------------------------------------------
(* Text *)

Empty == <<>>

IsWhitespace(c) == c \in {" "}

IsDigit(c) == c \in {"0", "1", "2", "3", "4", "5", "6", "7", "8", "9"}

DigitValue(c) ==
    CASE c = "0" -> 0 [] c = "1" -> 1 [] c = "2" -> 2 [] c = "3" -> 3
      [] c = "4" -> 4 [] c = "5" -> 5 [] c = "6" -> 6 [] c = "7" -> 7
      [] c = "8" -> 8 [] c = "9" -> 9

LowerChar(c) == CASE c = "A" -> "a" [] c = "B" -> "b" [] c = "C" -> "c" [] OTHER -> c

Lower(s) == [i \in 1..Len(s) |-> LowerChar(s[i])]

----------------------------------------------------------------------------
(* Validation in POST /api/referrals *)

RequiredFields ==
    {"referrerName", "referrerEmail", "referrerPhone",
     "refereeName", "refereeEmail", "refereePhone", "course"}

\* !body.f : the property is absent (undefined) or the empty string
Falsy(body, f) == f \notin DOMAIN body \/ body[f] = Empty

MissingFieldUndefinedOnly(body) == \E f \in RequiredFields : f \notin DOMAIN body

MissingField(body) == \E f \in RequiredFields : Falsy(body, f)

\* /\S+@\S+\.\S+/.test(s): unanchored; '@' after a non-whitespace character,
\* then one or more non-whitespace characters, '.', a non-whitespace character
EmailTest(s) ==
    \E i \in 2..Len(s) :
        /\ s[i] = "@"
        /\ ~IsWhitespace(s[i-1])
        /\ \E j \in (i+2)..(Len(s)-1) :
              /\ s[j] = "."
              /\ \A k \in (i+1)..(j-1) : ~IsWhitespace(s[k])
              /\ ~IsWhitespace(s[j+1])

PhoneDigits == 10

\* /^\d{10}$/.test(s)
PhoneTest(s) == Len(s) = PhoneDigits /\ \A i \in 1..Len(s) : IsDigit(s[i])

AllFieldsError == "All fields are required"
EmailError == "Invalid email format"
PhoneError == "Phone number must be 10 digits"

ValidateCreatePhoneFirst(body) ==
    IF MissingField(body) THEN AllFieldsError
    ELSE IF ~PhoneTest(body.referrerPhone) \/ ~PhoneTest(body.refereePhone)
         THEN PhoneError
    ELSE IF ~EmailTest(body.referrerEmail) \/ ~EmailTest(body.refereeEmail)
         THEN EmailError
    ELSE "ok"

\* the three checks of the handler, in the order of the code
ValidateCreate(body) ==
    IF MissingField(body) THEN AllFieldsError
    ELSE IF ~EmailTest(body.referrerEmail) \/ ~EmailTest(body.refereeEmail)
         THEN EmailError
    ELSE IF ~PhoneTest(body.referrerPhone) \/ ~PhoneTest(body.refereePhone)
         THEN PhoneError
    ELSE "ok"

----------------------------------------------------------------------------
(* Validation in PATCH /api/referrals/:id *)

StatusEnum == {"pending", "contacted", "enrolled", "completed"}

StatusErrorMsg == "Valid status is required"

ValidStatusAnyText(body) == "status" \in DOMAIN body /\ body.status # ""

\* !( !status || ![...].includes(status) )
ValidStatus(body) ==
    /\ "status" \in DOMAIN body
    /\ body.status # ""
    /\ body.status \in StatusEnum

----------------------------------------------------------------------------
(* Request inputs *)

Name == <<"n">>
Course == <<"c">>
EmailLower == <<"a", "@", "b", ".", "c">>
EmailUpper == <<"A", "@", "b", ".", "c">>
EmailNoAt == <<"a", "b", ".", "c">>
EmailNoDot == <<"a", "@", "b", "c">>
EmailSpace == <<"a", "@", " ", "b", ".", "c">>
Phone == <<"1", "2", "3", "4", "5", "6", "7", "8", "9", "0">>
PhoneShort == <<"1", "2", "3", "4", "5">>
PhoneLong == <<"1", "2", "3", "4", "5", "6", "7", "8", "9", "0", "1">>
PhoneAlpha == <<"1", "2", "3", "a", "b", "c", "7", "8", "9", "0">>

GoodBody ==
    [referrerName |-> Name, referrerEmail |-> EmailLower, referrerPhone |-> Phone,
     refereeName |-> Name, refereeEmail |-> EmailLower, refereePhone |-> Phone,
     course |-> Course]

Without(body, f) == [g \in DOMAIN body \ {f} |-> body[g]]

\* one field left out or sent as ""
Incomplete(body) ==
    {Without(body, f) : f \in DOMAIN body}
        \cup {[body EXCEPT ![f] = Empty] : f \in DOMAIN body}

BadEmails == {EmailNoAt, EmailNoDot, EmailSpace}
BadPhones == {PhoneShort, PhoneLong, PhoneAlpha}

WithEmail(body) ==
    {[body EXCEPT !.referrerEmail = e] : e \in BadEmails \cup {EmailUpper}}
        \cup {[body EXCEPT !.refereeEmail = e] : e \in BadEmails}

WithPhone(body) ==
    {[body EXCEPT !.referrerPhone = p] : p \in BadPhones}
        \cup {[body EXCEPT !.refereePhone = p] : p \in BadPhones}

BadEmailAndPhone ==
    {[GoodBody EXCEPT !.refereeEmail = EmailNoDot, !.referrerPhone = PhoneShort],
     [GoodBody EXCEPT !.referrerEmail = EmailNoAt, !.refereePhone = PhoneAlpha]}

\* bodies of POST /api/referrals: the good one, and bodies failing one check
\* or two checks at once
CreateBodies ==
    {GoodBody} \cup Incomplete(GoodBody) \cup WithEmail(GoodBody) \cup WithPhone(GoodBody)
        \cup Incomplete([GoodBody EXCEPT !.referrerEmail = EmailNoAt])
        \cup Incomplete([GoodBody EXCEPT !.refereePhone = PhoneLong])
        \cup BadEmailAndPhone

\* :email of GET /api/referrals/referrer/:email
EmailParams == {EmailLower}

\* :id of PATCH /api/referrals/:id: the first referral, and one never created
FirstId == <<"1">>
UnknownId == <<"0", "9">>

NoStatusBody == [note |-> "n"]

\* bodies of PATCH /api/referrals/:id
PatchBodies ==
    {[status |-> s] : s \in StatusEnum \cup {"cancelled", "", "Pending"}}
        \cup {NoStatusBody}

\* requests PATCH /api/referrals/:id: every body for the first referral, an
\* accepted and a rejected one for the unknown id
PatchRequests ==
    {[id |-> FirstId, body |-> b] : b \in PatchBodies}
        \cup {[id |-> UnknownId, body |-> [status |-> "enrolled"]],
              [id |-> UnknownId, body |-> [status |-> "cancelled"]]}

----------------------------------------------------------------------------
(* The table `referrals` and the five statements *)

DefaultStatusNull == "NULL"

\* status ENUM(...) DEFAULT 'pending'
DefaultStatus == "pending"

\* INSERT INTO referrals (...) VALUES (?, ?, ?, ?, ?, ?, ?): id is AUTO_INCREMENT,
\* status, created_at and updated_at take their column defaults
InsertedRow(id, p, t) ==
    [id |-> id,
     referrer_name |-> p.referrerName, referrer_email |-> p.referrerEmail,
     referrer_phone |-> p.referrerPhone, referee_name |-> p.refereeName,
     referee_email |-> p.refereeEmail, referee_phone |-> p.refereePhone,
     course |-> p.course,
     status |-> DefaultStatus, created_at |-> t, updated_at |-> t]

InsertId(rs) == Len(rs) + 1

\* value of a decimal string compared with the INT column id
RECURSIVE IdValue(_)
IdValue(s) ==
    IF s = Empty THEN 0
    ELSE 10 * IdValue(SubSeq(s, 1, Len(s) - 1)) + DigitValue(s[Len(s)])

UpdatedRowAlways(r, status, t) == [r EXCEPT !.status = status, !.updated_at = t]

\* ON UPDATE CURRENT_TIMESTAMP: updated_at moves only when the statement
\* changes the value of another column of the row
UpdatedRow(r, status, t) ==
    IF r.status = status THEN r
    ELSE [r EXCEPT !.status = status, !.updated_at = t]

UpdateRowsUpsert(rs, status, id, t) ==
    IF \E i \in 1..Len(rs) : rs[i].id = IdValue(id)
    THEN [i \in 1..Len(rs) |->
            IF rs[i].id = IdValue(id) THEN UpdatedRow(rs[i], status, t) ELSE rs[i]]
    ELSE Append(rs, [InsertedRow(IdValue(id), GoodBody, t) EXCEPT !.status = status])

UpdateRowsNoWhere(rs, status, id, t) ==
    [i \in 1..Len(rs) |-> UpdatedRow(rs[i], status, t)]

\* UPDATE referrals SET status = ? WHERE id = ?
UpdateRows(rs, status, id, t) ==
    [i \in 1..Len(rs) |->
        IF rs[i].id = IdValue(id) THEN UpdatedRow(rs[i], status, t) ELSE rs[i]]

\* result.affectedRows: the rows the WHERE clause matched (the connection is
\* opened with the driver's default flags, which count found rows)
AffectedRows(rs, id) == Cardinality({i \in 1..Len(rs) : rs[i].id = IdValue(id)})

\* referrer_email = ? under the collation of the column
CollationEq(a, b) == IF collation = "ci" THEN Lower(a) = Lower(b) ELSE a = b

WhereRefereeEmail(rs, email) ==
    LET Test(r) == CollationEq(r.referee_email, email)
    IN  SelectSeq(rs, Test)

\* WHERE referrer_email = ?
WhereReferrerEmail(rs, email) ==
    LET Test(r) == CollationEq(r.referrer_email, email)
    IN  SelectSeq(rs, Test)

IsSortedDesc(s) == \A i, j \in 1..Len(s) : i < j => s[i].created_at >= s[j].created_at

\* ORDER BY created_at DESC: every order of the rows that is descending in
\* created_at; the order of rows with equal created_at is not determined
OrderByCreatedAtDesc(rs) ==
    LET n == Len(rs)
        perms == {f \in [1..n -> 1..n] : \A i, j \in 1..n : i # j => f[i] # f[j]}
    IN  {s \in {[i \in 1..n |-> rs[f[i]]] : f \in perms} : IsSortedDesc(s)}

SqlInt(n) == [null |-> FALSE, n |-> n]
SqlNull == [null |-> TRUE, n |-> 0]

\* COUNT(*)
CountStar(rs) == SqlInt(Len(rs))

\* SUM(CASE WHEN status = st THEN 1 ELSE 0 END): NULL over no rows
SumCase(rs, st) ==
    IF Len(rs) = 0 THEN SqlNull
    ELSE SqlInt(Cardinality({i \in 1..Len(rs) : rs[i].status = st}))

StatisticsRow(rs) ==
    [total_referrals |-> CountStar(rs),
     pending_referrals |-> SumCase(rs, "pending"),
     contacted_referrals |-> SumCase(rs, "contacted"),
     enrolled_referrals |-> SumCase(rs, "enrolled"),
     completed_referrals |-> SumCase(rs, "completed")]

----------------------------------------------------------------------------
(* Responses *)

NoRequest == [none |-> TRUE]

\* what res.status(code).json(...) sent, for which request, and the rows of the
\* table just before the step that sent it; `at` is the time of a status update
Response(op, req, code, error) ==
    [op |-> op, req |-> req, code |-> code, error |-> error, message |-> "",
     insertId |-> 0, rowsOut |-> <<>>, stats |-> <<>>, at |-> 0, before |-> rows]

NoResponse == [op |-> "none", req |-> NoRequest, code |-> 0, error |-> "", message |-> "",
               insertId |-> 0, rowsOut |-> <<>>, stats |-> <<>>, at |-> 0, before |-> <<>>]

----------------------------------------------------------------------------
(* The connection `db` *)

IsRequest(c) == c.kind \notin {"connect", "createTables"}

InFlight == Cardinality({i \in 1..Len(queue) : IsRequest(queue[i])})

\* db.query(...): the command waits behind those already enqueued; no response yet
Enqueue(c) == queue' = Append(queue, c) /\ last' = NoResponse

\* the command whose callback runs next
HeadIs(kind) == queue # <<>> /\ Head(queue).kind = kind

\* err of a query callback: the connection is closed, or the table is missing
QueryFails == conn # "connected" \/ ~tableExists

\* the process has just been started against a database without the table
Init ==
    /\ running = TRUE
    /\ conn = "connecting"
    /\ backendUp \in BOOLEAN
    /\ canCreate \in BOOLEAN
    /\ tableExists = FALSE
    /\ collation \in {"ci", "bin"}
    /\ queue = <<[kind |-> "connect"]>>
    /\ rows = <<>>
    /\ now = 0
    /\ errLog = {}
    /\ last = NoResponse

----------------------------------------------------------------------------
(* Bootstrap *)

ConnectFailedExits ==
    /\ running' = FALSE
    /\ conn' = "closed"
    /\ queue' = Tail(queue)
    /\ errLog' = errLog \cup {"Error connecting to MySQL database:"}

\* db.connect callback with err: logged, nothing else
ConnectFailed ==
    /\ running' = running
    /\ conn' = "closed"
    /\ queue' = Tail(queue)
    /\ errLog' = errLog \cup {"Error connecting to MySQL database:"}

\* db.connect callback: on success the CREATE TABLE statement is enqueued
DbConnect ==
    /\ HeadIs("connect")
    /\ IF backendUp
       THEN /\ conn' = "connected"
            /\ queue' = Append(Tail(queue), [kind |-> "createTables"])
            /\ UNCHANGED <<running, errLog>>
       ELSE ConnectFailed
    /\ last' = NoResponse
    /\ UNCHANGED <<backendUp, canCreate, tableExists, collation, rows, now>>

\* callback of CREATE TABLE IF NOT EXISTS referrals
CreateTables ==
    /\ HeadIs("createTables")
    /\ queue' = Tail(queue)
    /\ IF canCreate
       THEN tableExists' = TRUE /\ UNCHANGED errLog
       ELSE /\ errLog' = errLog \cup {"Error creating tables:"}
            /\ UNCHANGED tableExists
    /\ last' = NoResponse
    /\ UNCHANGED <<running, conn, backendUp, canCreate, collation, rows, now>>

\* the MySQL server becomes reachable again; nothing connects `db` again
RestoreConnectivity ==
    /\ ~backendUp
    /\ conn = "closed"
    /\ backendUp' = TRUE
    /\ last' = NoResponse
    /\ UNCHANGED <<running, conn, canCreate, tableExists, collation, queue, rows, now,
                   errLog>>

\* a second passes on the server's clock
Tick ==
    /\ now < MaxTime
    /\ now' = now + 1
    /\ last' = NoResponse
    /\ UNCHANGED <<running, conn, backendUp, canCreate, tableExists, collation, queue,
                   rows, errLog>>

----------------------------------------------------------------------------
(* GET /api/referrals *)

GetReferrals ==
    /\ running
    /\ InFlight < MaxQueue
    /\ Enqueue([kind |-> "selectAll"])
    /\ UNCHANGED <<running, conn, backendUp, canCreate, tableExists, collation, rows,
                   now, errLog>>

GetReferralsCallback ==
    /\ HeadIs("selectAll")
    /\ queue' = Tail(queue)
    /\ IF QueryFails
       THEN /\ errLog' = errLog \cup {"Error fetching referrals:"}
            /\ last' = Response("listAll", NoRequest, 500, "Failed to fetch referrals")
       ELSE \E results \in OrderByCreatedAtDesc(rows) :
            /\ last' = [Response("listAll", NoRequest, 200, "")
                            EXCEPT !.rowsOut = results]
            /\ UNCHANGED errLog
    /\ UNCHANGED <<running, conn, backendUp, canCreate, tableExists, collation, rows, now>>

----------------------------------------------------------------------------
(* GET /api/referrals/referrer/:email *)

\* the handler, for an :email drawn from `emails`
GetReferralsByEmailFrom(emails) ==
    /\ running
    /\ InFlight < MaxQueue
    /\ \E email \in emails : Enqueue([kind |-> "selectByEmail", email |-> email])
    /\ UNCHANGED <<running, conn, backendUp, canCreate, tableExists, collation, rows,
                   now, errLog>>

GetReferralsByEmail == GetReferralsByEmailFrom(EmailParams)

GetReferralsByEmailCallback ==
    /\ HeadIs("selectByEmail")
    /\ queue' = Tail(queue)
    /\ LET req == [email |-> Head(queue).email]
       IN  IF QueryFails
           THEN /\ errLog' = errLog \cup {"Error fetching referrals by email:"}
                /\ last' = Response("listByEmail", req, 500, "Failed to fetch referrals")
           ELSE \E results \in OrderByCreatedAtDesc(WhereReferrerEmail(rows, req.email)) :
                /\ last' = [Response("listByEmail", req, 200, "")
                                EXCEPT !.rowsOut = results]
                /\ UNCHANGED errLog
    /\ UNCHANGED <<running, conn, backendUp, canCreate, tableExists, collation, rows,
                   now>>

----------------------------------------------------------------------------
(* POST /api/referrals *)

\* the handler, for a request body drawn from `bodies`
CreateReferralFrom(bodies) ==
    /\ running
    /\ \E body \in bodies :
        LET verdict == ValidateCreate(body)
        IN  IF verdict # "ok"
            THEN /\ last' = Response("create", body, 400, verdict)
                 /\ UNCHANGED queue
            ELSE /\ InFlight < MaxQueue
                 /\ Len(rows) + Cardinality({i \in 1..Len(queue) :
                                                queue[i].kind = "insert"}) < MaxRows
                 /\ Enqueue([kind |-> "insert", params |-> body])
    /\ UNCHANGED <<running, conn, backendUp, canCreate, tableExists, collation, rows,
                   now, errLog>>

CreateReferralCallback ==
    /\ HeadIs("insert")
    /\ queue' = Tail(queue)
    /\ LET body == Head(queue).params
       IN  IF QueryFails
           THEN /\ errLog' = errLog \cup {"Error creating referral:"}
                /\ last' = Response("create", body, 500, "Failed to create referral")
                /\ UNCHANGED rows
           ELSE /\ rows' = Append(rows, InsertedRow(InsertId(rows), body, now))
                /\ last' = [Response("create", body, 201, "")
                                EXCEPT !.insertId = InsertId(rows),
                                       !.message = "Referral created successfully"]
                /\ UNCHANGED errLog
    /\ UNCHANGED <<running, conn, backendUp, canCreate, tableExists, collation, now>>

----------------------------------------------------------------------------
(* PATCH /api/referrals/:id *)

\* the handler, for an :id and a body drawn from `requests`
UpdateStatusFrom(requests) ==
    /\ running
    /\ \E r \in requests :
        IF ~ValidStatus(r.body)
        THEN /\ last' = Response("update", r, 400, StatusErrorMsg)
             /\ UNCHANGED queue
        ELSE /\ InFlight < MaxQueue
             /\ Enqueue([kind |-> "update", id |-> r.id, status |-> r.body.status])
    /\ UNCHANGED <<running, conn, backendUp, canCreate, tableExists, collation, rows,
                   now, errLog>>

UpdateStatus == UpdateStatusFrom(PatchRequests)

UpdateStatusCallback ==
    /\ HeadIs("update")
    /\ queue' = Tail(queue)
    /\ LET c == Head(queue)
           req == [id |-> c.id, body |-> [status |-> c.status]]
       IN  IF QueryFails
           THEN /\ errLog' = errLog \cup {"Error updating referral status:"}
                /\ last' = Response("update", req, 500, "Failed to update referral status")
                /\ UNCHANGED rows
           ELSE /\ rows' = UpdateRows(rows, c.status, c.id, now)
                /\ IF AffectedRows(rows, c.id) = 0
                   THEN last' = Response("update", req, 404, "Referral not found")
                   ELSE last' = [Response("update", req, 200, "")
                                    EXCEPT !.message = "Referral status updated successfully",
                                           !.at = now]
                /\ UNCHANGED errLog
    /\ UNCHANGED <<running, conn, backendUp, canCreate, tableExists, collation, now>>

----------------------------------------------------------------------------
(* GET /api/statistics *)

GetStatistics ==
    /\ running
    /\ InFlight < MaxQueue
    /\ Enqueue([kind |-> "statistics"])
    /\ UNCHANGED <<running, conn, backendUp, canCreate, tableExists, collation, rows,
                   now, errLog>>

GetStatisticsCallback ==
    /\ HeadIs("statistics")
    /\ queue' = Tail(queue)
    /\ IF QueryFails
       THEN /\ errLog' = errLog \cup {"Error fetching statistics:"}
            /\ last' = Response("statistics", NoRequest, 500, "Failed to fetch statistics")
       ELSE /\ last' = [Response("statistics", NoRequest, 200, "")
                            EXCEPT !.stats = <<StatisticsRow(rows)>>]
            /\ UNCHANGED errLog
    /\ UNCHANGED <<running, conn, backendUp, canCreate, tableExists, collation, rows,
                   now>>

----------------------------------------------------------------------------
(* Specifications: the whole program, and the program under one kind of load *)

\* every route, each with one accepted and (where there is one) one rejected input
Next ==
    \/ DbConnect
    \/ CreateTables
    \/ RestoreConnectivity
    \/ Tick
    \/ GetReferrals
    \/ GetReferralsCallback
    \/ GetReferralsByEmail
    \/ GetReferralsByEmailCallback
    \/ CreateReferralFrom({GoodBody, Without(GoodBody, "course")})
    \/ CreateReferralCallback
    \/ UpdateStatusFrom({[id |-> FirstId, body |-> [status |-> "enrolled"]],
                         [id |-> FirstId, body |-> NoStatusBody]})
    \/ UpdateStatusCallback
    \/ GetStatistics
    \/ GetStatisticsCallback

Spec == Init /\ [][Next]_vars

\* the program when the connection or the schema creation fails
InitBootstrapFails == Init /\ (~backendUp \/ ~canCreate)

SpecBootstrapFails == InitBootstrapFails /\ [][Next]_vars

\* the program when the connection and the schema creation succeed; requests
\* may still arrive before the table exists
InitBootstrapSucceeds == Init /\ backendUp /\ canCreate

\* the same, with the collation MySQL gives a column by default
InitDefaultCollation == InitBootstrapSucceeds /\ collation = "ci"

\* creations and status updates, within one second of the clock
NextStatus ==
    \/ DbConnect
    \/ CreateTables
    \/ CreateReferralFrom({GoodBody})
    \/ CreateReferralCallback
    \/ UpdateStatus
    \/ UpdateStatusCallback

SpecStatus == InitDefaultCollation /\ [][NextStatus]_vars

\* creations and accepted status updates of the first referral, over the seconds
NextTimestamps ==
    \/ DbConnect
    \/ CreateTables
    \/ Tick
    \/ CreateReferralFrom({GoodBody})
    \/ CreateReferralCallback
    \/ UpdateStatusFrom({[id |-> FirstId, body |-> [status |-> "pending"]],
                         [id |-> FirstId, body |-> [status |-> "enrolled"]]})
    \/ UpdateStatusCallback

SpecTimestamps == InitDefaultCollation /\ [][NextTimestamps]_vars

\* creations and listings only
NextList ==
    \/ DbConnect
    \/ CreateTables
    \/ Tick
    \/ CreateReferralFrom({GoodBody, [GoodBody EXCEPT !.referrerEmail = EmailUpper]})
    \/ CreateReferralCallback
    \/ GetReferrals
    \/ GetReferralsCallback
    \/ GetReferralsByEmail
    \/ GetReferralsByEmailCallback

SpecList == InitBootstrapSucceeds /\ [][NextList]_vars

\* creations only, with every request body of CreateBodies
NextCreate ==
    \/ DbConnect
    \/ CreateTables
    \/ Tick
    \/ CreateReferralFrom(CreateBodies)
    \/ CreateReferralCallback

SpecCreate == InitDefaultCollation /\ [][NextCreate]_vars

----------------------------------------------------------------------------
(* Properties *)

\* the four status values, as the specification lists them
FourStatuses == {"pending", "contacted", "enrolled", "completed"}

\* the status of a PATCH body is one of the four values
StatusGiven(body) == "status" \in DOMAIN body /\ body.status \in FourStatuses

\* the rows of rs whose id is the number written by the decimal string id
Matching(rs, id) == {i \in 1..Len(rs) : rs[i].id = IdValue(id)}

\* C1: the stored status of every referral is always one of pending, contacted,
\* enrolled, completed, whatever requests were accepted or rejected
StatusAlwaysInEnum == \A i \in 1..Len(rows) : rows[i].status \in FourStatuses

\* a rejected update has just been answered while a referral has left pending
StatusAlwaysInEnumWitness ==
    /\ last.op = "update"
    /\ last.code = 400
    /\ \E i \in 1..Len(rows) : rows[i].status = "completed"

\* C3: an update whose status is missing or outside the four values is answered
\* 400 "Valid status is required" and leaves every row as it was
InvalidStatusRejected ==
    (last.op = "update" /\ ~StatusGiven(last.req.body)) =>
        /\ last.code = 400
        /\ last.error = "Valid status is required"
        /\ rows = last.before

\* "Pending" has just been refused for a referral that exists
InvalidStatusRejectedWitness ==
    /\ last.op = "update"
    /\ last.code = 400
    /\ last.req.body = [status |-> "Pending"]
    /\ Matching(rows, last.req.id) # {}

\* C4: when the storage executes an update with a valid status, an id matching
\* no referral is answered 404 "Referral not found" and the table is as it was;
\* an id matching a referral is answered 200
UpdateNotFound ==
    (last.op = "update" /\ StatusGiven(last.req.body) /\ ~QueryFails) =>
        IF Matching(last.before, last.req.id) = {}
        THEN /\ last.code = 404
             /\ last.error = "Referral not found"
             /\ rows = last.before
        ELSE last.code = 200

\* 404 has just been answered while the table holds referrals
UpdateNotFoundWitness ==
    /\ last.op = "update"
    /\ last.code = 404
    /\ rows # <<>>

\* C8 as claimed: every update answered 200 sets updated_at to the time of the
\* update and keeps created_at, and created_at <= updated_at in every row
EveryUpdateRefreshesUpdatedAt ==
    /\ \A i \in 1..Len(rows) : rows[i].created_at <= rows[i].updated_at
    /\ (last.op = "update" /\ last.code = 200) =>
          \A i \in Matching(rows, last.req.id) :
              /\ rows[i].updated_at = last.at
              /\ rows[i].created_at = last.before[i].created_at

\* C8 as amended: an update answered 200 that changes the status sets updated_at
\* to the time of the update, one that sets the status the row already has leaves
\* updated_at as it was; both keep created_at; created_at <= updated_at in every row
UpdatedAtRefreshedOnChange ==
    /\ \A i \in 1..Len(rows) : rows[i].created_at <= rows[i].updated_at
    /\ (last.op = "update" /\ last.code = 200) =>
          \A i \in Matching(rows, last.req.id) :
              /\ rows[i].created_at = last.before[i].created_at
              /\ rows[i].updated_at =
                    IF last.before[i].status # last.req.body.status
                    THEN last.at
                    ELSE last.before[i].updated_at

\* an update to the status the row already had has been answered 200 at a later
\* second than the row's updated_at
UpdatedAtRefreshedOnChangeWitness ==
    /\ last.op = "update"
    /\ last.code = 200
    /\ \E i \in Matching(rows, last.req.id) :
          /\ last.before[i].status = last.req.body.status
          /\ last.before[i].updated_at < last.at

\* C9: every update with a valid status that the storage executes on an existing
\* id is answered 200 and leaves that referral with the status of this update,
\* the latest one executed, and every other referral as it was; so of two updates
\* in flight together the one executed last decides the stored status
LastWriteWins ==
    (/\ last.op = "update"
     /\ StatusGiven(last.req.body)
     /\ ~QueryFails
     /\ Matching(last.before, last.req.id) # {}) =>
        /\ last.code = 200
        /\ Len(rows) = Len(last.before)
        /\ \A i \in 1..Len(rows) :
              IF i \in Matching(last.before, last.req.id)
              THEN rows[i].status = last.req.body.status
              ELSE rows[i] = last.before[i]

\* an update has been answered 200 while an update of the same referral to
\* another status is in flight, and a second referral exists
LastWriteWinsWitness ==
    /\ last.op = "update"
    /\ last.code = 200
    /\ Len(rows) > 1
    /\ \E k \in 1..Len(queue) :
          /\ queue[k].kind = "update"
          /\ IdValue(queue[k].id) = IdValue(last.req.id)
          /\ queue[k].status # last.req.body.status

\* C2 as claimed: a statistics request answered 200 returns five non-negative
\* integers, total is the number of stored referrals and the four status counts
\* add up to total, also when no referral is stored
StatisticsCountsAddUp ==
    (last.op = "statistics" /\ last.code = 200) =>
        LET st == last.stats[1]
        IN  /\ \A f \in DOMAIN st : ~st[f].null /\ st[f].n \in Nat
            /\ st.total_referrals.n = Len(rows)
            /\ st.pending_referrals.n + st.contacted_referrals.n
                 + st.enrolled_referrals.n + st.completed_referrals.n
               = st.total_referrals.n

\* the seven fields a create request must carry, as the specification lists them
SevenFields ==
    {"referrerName", "referrerEmail", "referrerPhone",
     "refereeName", "refereeEmail", "refereePhone", "course"}

\* one of the seven fields is missing or empty
LacksField(body) == \E f \in SevenFields : f \notin DOMAIN body \/ Len(body[f]) = 0

\* s holds non-whitespace+ '@' non-whitespace+ '.' non-whitespace+
EmailShaped(s) ==
    \E a, b, c, d \in 1..Len(s) :
        /\ a < b /\ b + 1 < c /\ c < d
        /\ s[b] = "@" /\ s[c] = "."
        /\ \A k \in (a..(b-1)) \cup ((b+1)..(c-1)) \cup ((c+1)..d) : s[k] # " "

\* s is exactly ten decimal digits
TenDigits(s) ==
    /\ Len(s) = 10
    /\ \A i \in 1..Len(s) : s[i] \in {"0", "1", "2", "3", "4", "5", "6", "7", "8", "9"}

\* C5: a create request in which one of the seven fields is missing or empty is
\* answered 400 "All fields are required"; the table is as it was and no
\* insertion of that body is under way
MissingFieldRejected ==
    (last.op = "create" /\ LacksField(last.req)) =>
        /\ last.code = 400
        /\ last.error = "All fields are required"
        /\ rows = last.before
        /\ \A k \in 1..Len(queue) :
              queue[k].kind = "insert" => queue[k].params # last.req

\* a body without course has been refused while the table holds a referral
MissingFieldRejectedWitness ==
    /\ last.op = "create"
    /\ last.code = 400
    /\ "course" \notin DOMAIN last.req
    /\ rows # <<>>

\* C10: create checks in a fixed order and the first failure decides the answer:
\* a missing or empty field, then the shape of the two emails, then the ten
\* digits of the two phones; a row is added, with status pending, only for a
\* body that passes the three checks
ValidationOrder ==
    last.op = "create" =>
        LET b == last.req
        IN  /\ LacksField(b) =>
                last.code = 400 /\ last.error = "All fields are required"
            /\ (/\ ~LacksField(b)
                /\ ~(EmailShaped(b.referrerEmail) /\ EmailShaped(b.refereeEmail))) =>
                last.code = 400 /\ last.error = "Invalid email format"
            /\ (/\ ~LacksField(b)
                /\ EmailShaped(b.referrerEmail) /\ EmailShaped(b.refereeEmail)
                /\ ~(TenDigits(b.referrerPhone) /\ TenDigits(b.refereePhone))) =>
                last.code = 400 /\ last.error = "Phone number must be 10 digits"
            /\ rows # last.before =>
                /\ ~LacksField(b)
                /\ EmailShaped(b.referrerEmail) /\ EmailShaped(b.refereeEmail)
                /\ TenDigits(b.referrerPhone) /\ TenDigits(b.refereePhone)
                /\ Len(rows) = Len(last.before) + 1
                /\ SubSeq(rows, 1, Len(last.before)) = last.before
                /\ rows[Len(rows)].status = "pending"

\* a body with a bad email and a bad phone has been refused for its email
ValidationOrderWitness ==
    /\ last.op = "create"
    /\ last.error = "Invalid email format"
    /\ ~LacksField(last.req)
    /\ ~(TenDigits(last.req.referrerPhone) /\ TenDigits(last.req.refereePhone))

\* the rows of s, as a set
Range(s) == {s[i] : i \in 1..Len(s)}

\* the rows of s whose referrer_email is exactly e, in the order of s
ExactlyEqual(s, e) ==
    LET Test(r) == r.referrer_email = e
    IN  SelectSeq(s, Test)

\* C6 as claimed: a listing by referrer email answered 200 is what a full
\* listing of the same table returns, cut down to the rows whose referrer_email
\* equals the email, in the same order
ListByEmailIsSubsequenceOfListAll ==
    (last.op = "listByEmail" /\ last.code = 200) =>
        \A all \in OrderByCreatedAtDesc(rows) :
            last.rowsOut = ExactlyEqual(all, last.req.email)

\* C6 as amended: when the storage executes it, a listing by referrer email is
\* answered 200 with exactly the stored rows whose referrer_email equals the
\* email under the collation of the column, each once, in descending created_at
\* (none when nothing matches); against a full listing of the same table, rows
\* with different created_at come in the same relative order
ListByEmailMatchesUnderCollation ==
    (last.op = "listByEmail" /\ ~QueryFails) =>
        LET out == last.rowsOut
        IN  /\ last.code = 200
            /\ Range(out) = {r \in Range(rows) :
                                CollationEq(r.referrer_email, last.req.email)}
            /\ Len(out) = Cardinality(Range(out))
            /\ \A i, j \in 1..Len(out) : i < j => out[i].created_at >= out[j].created_at
            /\ \A all \in OrderByCreatedAtDesc(rows) :
                  \A i, j \in 1..Len(out) :
                      (i < j /\ out[i].created_at # out[j].created_at) =>
                          \E k, l \in 1..Len(all) :
                              k < l /\ all[k] = out[i] /\ all[l] = out[j]

\* a listing by email has returned two rows created at different seconds whose
\* referrer_email differ in letter case
ListByEmailMatchesUnderCollationWitness ==
    /\ last.op = "listByEmail"
    /\ last.code = 200
    /\ \E i, j \in 1..Len(last.rowsOut) :
          /\ last.rowsOut[i].created_at # last.rowsOut[j].created_at
          /\ last.rowsOut[i].referrer_email # last.rowsOut[j].referrer_email

\* the request just answered is one its handler refuses before any query
Refused ==
    \/ last.op = "create" /\
          (\/ LacksField(last.req)
           \/ ~(EmailShaped(last.req.referrerEmail) /\ EmailShaped(last.req.refereeEmail))
           \/ ~(TenDigits(last.req.referrerPhone) /\ TenDigits(last.req.refereePhone)))
    \/ last.op = "update" /\ ~StatusGiven(last.req.body)

ConnectFailureLogged == "Error connecting to MySQL database:" \in errLog

\* C7 as claimed: the process keeps running; once the connection or the schema
\* creation has failed, every request answered while the storage cannot be used
\* is answered 500; and once the server can be reached again after a failed
\* connection, requests are no longer answered 500
BootstrapFailureAnswers500UntilRestored ==
    /\ running
    /\ (/\ ConnectFailureLogged \/ "Error creating tables:" \in errLog
        /\ QueryFails
        /\ last.op # "none") => last.code = 500
    /\ (ConnectFailureLogged /\ backendUp /\ last.op # "none") => last.code # 500

\* C7 as amended: the process keeps running and the failure is logged; while
\* the storage cannot be used, a request its handler refuses is answered 400 and
\* every other request 500; and after a failed connection `db` stays closed,
\* also when the server can be reached again
BootstrapFailureDegrades ==
    /\ running
    /\ conn = "closed" <=> ConnectFailureLogged
    /\ (conn = "connected" /\ queue = <<>>) => "Error creating tables:" \in errLog
    /\ (last.op # "none" /\ QueryFails) =>
          last.code = IF Refused THEN 400 ELSE 500

\* the server can be reached again after the connection failed, and a request
\* has still been answered 500
BootstrapFailureDegradesWitness ==
    /\ ConnectFailureLogged
    /\ backendUp
    /\ last.op # "none"
    /\ last.code = 500

====
